---- MODULE Spec2Model ----
(***************************************************************************)
(* Task orchestration engine of xiaole-backend: the task store             *)
(* (task_manager.py), the step runner and executor (task_executor.py),     *)
(* the resumption gate and the task-creation flow of the chat handler      *)
(* (agent.py) and the raw status endpoint (routers/tasks.py).              *)
(*                                                                         *)
(* Rows of the two tables are kept in two sequences indexed by the         *)
(* store-assigned serial id.  These views of the program are specified:    *)
(*   Spec, SpecApi  every handler is one atomic action; task rows carry    *)
(*                  session and status, and the title check of the chat    *)
(*                  flow is left to the choice of the message;             *)
(*   SpecStore      Spec on a store whose writes can fail;                 *)
(*   SpecSessions   chat turns of two sessions with several tasks each;    *)
(*   SpecDedup      the creation paths with title, created_at and a clock; *)
(*   SpecConc       two request handlers in flight at once, one store      *)
(*                  call or step at a time.                                *)
(***************************************************************************)
EXTENDS Integers, Sequences, FiniteSets, TLC

VARIABLES tasks, steps, toolCalls, report, call, now, procs

vars == <<tasks, steps, toolCalls, report, call, now, procs>>

(* ------------------------------ bounds --------------------------------- *)

\* highest task id the store hands out
MaxTasks == 1
\* highest step id the store hands out (rows of task_steps, all tasks)
MaxSteps == 2
\* the dispatch counter of a step saturates here
MaxCalls == 2
\* highest task id of the creation paths of SpecDedup
MaxCreations == 2
\* the clock of SpecDedup stops here (seconds)
MaxTime == 70

(* ------------------------------ domains -------------------------------- *)

Sessions == {"s1"}
Messages == {"m1", "m2"}

TaskStatus == {"pending", "in_progress", "waiting",
               "completed", "failed", "cancelled"}

\* what the confirmation classifier can answer
Classifications == {"confirmed", "rejected", "unrelated"}

\* what the classifier oracle (_call_deepseek / _call_claude) can do for
\* _analyze_confirmation: answer with a text that holds the word confirmed,
\* the word rejected, both words or neither of them, or raise
OracleAnswers == {"confirmed", "rejected", "both", "neither", "raises"}

\* the user_confirm_callback argument of execute_task: absent, returning
\* True, returning False, or raising
Callbacks == {"none", "yes", "no", "raises"}

\* what ToolRegistry.execute does for one dispatch: returns a result with
\* success=True, returns a result with success=False, returns a result that
\* json.dumps cannot encode (CalculatorTool puts the value of eval() in its
\* metadata, a complex number for "(-1)**0.5"), or raises
ToolOutcomes == {"ok", "fail", "unserializable", "raise"}

\* action_params as the decomposer hands them to create_step: absent, an
\* empty dict, a dict without tool_name, a dict with tool_name
NULL == "NULL"

\* the (action_type, action_params) pairs the decomposer is drawn from
DecomposerSteps ==
    {<<"tool_call", "tool">>, <<"user_confirm", "notes">>,
     <<"info", "notes">>, <<"wait", "none">>}

\* answers of the decomposer oracle that are not a step list: a text with no
\* JSON object in it, a JSON value that is not an object, an object whose
\* "steps" is a string or an object, and a list of steps with an element
\* that is not an object after a well-formed first step
MalformedShapes == {"no_json", "not_object", "steps_not_list", "bad_element"}

NoResult == <<NULL, "">>

\* what a handler returned, with what execute_task did on the way: ran is
\* the steps handed to the step runner, in order, errors those for which
\* the runner answered success=False, and cause the call that raised into
\* the exception handler of execute_task
NoReport == [task |-> 0, callback |-> "none", prompt |-> "", success |-> FALSE, started |-> FALSE,
             status |-> "none", total_steps |-> 0, completed_steps |-> 0,
             failed_steps |-> 0, ran |-> <<>>, errors |-> {}, cause |-> "none"]

\* the handler that ran last and what it was called with: op is the entry
\* point, session the session_id of a chat turn, task the task_id (for a
\* chat turn the task it created, if any),
\* gated the waiting step the gate asked the classifier about (0 when it did
\* not ask), answer what the oracle did, intent and identify whether the
\* turn ran analyze_intent and identify_complex_task, decomposer the shape
\* of the answer decompose_task got from its oracle ("none" when it was not
\* called)
NoCall == [op |-> "none", session |-> "none", task |-> 0, gated |-> 0,
           answer |-> "none", intent |-> FALSE, identify |-> FALSE,
           decomposer |-> "none"]

\* the request handlers of SpecConc and the local state of one that is
\* not running
Procs == {1, 2}

Idle == [pc |-> "idle"]

(* ------------------------------ TaskStore ------------------------------ *)

TaskIds == 1..Len(tasks)
StepIds == 1..Len(steps)

\* TaskManager.get_task: the row, or None for an id that has no row
TaskExists(t) == t \in TaskIds

\* TaskManager.create_task: a row with status 'pending'
NewTask(session) == [session |-> session, status |-> "pending"]

\* TaskManager.create_step: json.dumps(action_params) if action_params
\* else None, status 'pending'; the INSERT names no continue_on_error, so
\* step.get('continue_on_error', False) reads False for every row
ParamsJson(action_params) ==
    IF action_params \in {"none", "empty"} THEN NULL ELSE action_params

NewStep(t, step_num, action_type, action_params) ==
    [task_id |-> t, step_num |-> step_num, action_type |-> action_type,
     action_params |-> ParamsJson(action_params), status |-> "pending",
     result |-> NoResult, error_message |-> NoResult,
     continue_on_error |-> FALSE]

\* TaskManager.update_step_status: status always, result and
\* error_message only when given
UpdateStepStatus(ss, id, status, result, error) ==
    [ss EXCEPT ![id].status = status,
               ![id].result = IF result = NoResult THEN @ ELSE result,
               ![id].error_message = IF error = NoResult THEN @ ELSE error]

\* the keyword parameters update_step_status declares besides step_id and
\* status
StepStatusKeywords == {"result", "error_message"}

\* Python binds the keyword arguments of a call before the body of
\* update_step_status, and its try, is entered: a keyword the method does
\* not declare raises TypeError in the caller
BindsKeyword(kw) == kw \in StepStatusKeywords

\* TaskManager.update_task_status
UpdateTaskStatusRow(ts, t, status) == [ts EXCEPT ![t].status = status]

StepsOf(ss, t) == {i \in 1..Len(ss) : ss[i].task_id = t}

RECURSIVE SortByStepNum(_, _)
SortByStepNum(ss, ids) ==
    IF ids = {} THEN <<>>
    ELSE LET m == CHOOSE i \in ids :
                    \A j \in ids : ss[i].step_num <= ss[j].step_num
         IN  <<m>> \o SortByStepNum(ss, ids \ {m})

RECURSIVE SortById(_)
SortById(ids) ==
    IF ids = {} THEN <<>>
    ELSE LET m == CHOOSE i \in ids : \A j \in ids : i <= j
         IN  <<m>> \o SortById(ids \ {m})

\* a get_task_steps without ORDER BY step_num: rows in insertion order
GetTaskStepsById(ss, t) == SortById(StepsOf(ss, t))

\* TaskManager.get_task_steps: ORDER BY step_num
GetTaskSteps(ss, t) == SortByStepNum(ss, StepsOf(ss, t))

(* ------------------------------ StepRunner ----------------------------- *)

StepOutcome(success, status, result, error, dispatched) ==
    [success |-> success, status |-> status, result |-> result,
     error |-> error, dispatched |-> dispatched, encodable |-> TRUE]

\* TaskExecutor._execute_tool_call: params.get on a NULL action_params
\* raises inside the try, a dict without tool_name is refused, otherwise the
\* tool is dispatched and only a raised exception is a failure: the
\* returned result is wrapped in success=True whatever its own success flag
ExecuteToolCall(action_params, outcome) ==
    IF action_params = NULL
    THEN StepOutcome(FALSE, "", NoResult, <<"tool call failed", "AttributeError">>, FALSE)
    ELSE IF action_params # "tool"
    THEN StepOutcome(FALSE, "", NoResult, <<"missing tool name", "">>, FALSE)
    ELSE IF outcome = "raise"
    THEN StepOutcome(FALSE, "", NoResult, <<"tool call failed", "raise">>, TRUE)
    ELSE [StepOutcome(TRUE, "", <<"tool_call", outcome>>, NoResult, TRUE)
            EXCEPT !.encodable = (outcome # "unserializable")]

\* _execute_user_confirm that reports a confirmation without a callback as
\* plain success, with no status='waiting'
ExecuteUserConfirmNoWait(callback) ==
    IF callback = "raises"
    THEN StepOutcome(FALSE, "", NoResult, <<"confirm failed", "">>, FALSE)
    ELSE StepOutcome(TRUE, "", <<"user_confirm", callback>>, NoResult, FALSE)

\* an _execute_user_confirm that reports a refusal through the callback as
\* a failure of the step
ExecuteUserConfirmRejectFails(callback) ==
    IF callback = "none"
    THEN StepOutcome(TRUE, "waiting", <<"user_confirm", "waiting">>, NoResult, FALSE)
    ELSE IF callback \in {"raises", "no"}
    THEN StepOutcome(FALSE, "", NoResult, <<"confirm failed", "">>, FALSE)
    ELSE StepOutcome(TRUE, "", <<"user_confirm", callback>>, NoResult, FALSE)

\* TaskExecutor._execute_user_confirm
ExecuteUserConfirm(callback) ==
    IF callback = "none"
    THEN StepOutcome(TRUE, "waiting", <<"user_confirm", "waiting">>, NoResult, FALSE)
    ELSE IF callback = "raises"
    THEN StepOutcome(FALSE, "", NoResult, <<"confirm failed", "">>, FALSE)
    ELSE StepOutcome(TRUE, "", <<"user_confirm", callback>>, NoResult, FALSE)

\* TaskExecutor._execute_wait: params.get on a NULL action_params raises,
\* and _execute_step turns the exception into a failure
ExecuteWait(action_params) ==
    IF action_params = NULL
    THEN StepOutcome(FALSE, "", NoResult, <<"AttributeError", "">>, FALSE)
    ELSE StepOutcome(TRUE, "", <<"wait", "">>, NoResult, FALSE)

\* TaskExecutor._execute_step: dispatch on action_type
ExecuteStep(step, callback, outcome) ==
    CASE step.action_type = "tool_call" ->
            ExecuteToolCall(step.action_params, outcome)
      [] step.action_type = "user_confirm" -> ExecuteUserConfirm(callback)
      [] step.action_type = "wait" -> ExecuteWait(step.action_params)
      [] step.action_type = "info" ->
            StepOutcome(TRUE, "", <<"info", "">>, NoResult, FALSE)
      [] OTHER ->
            StepOutcome(FALSE, "", NoResult, <<"unknown action type", "">>, FALSE)

(* ------------------------------ TaskExecutor --------------------------- *)

Bump(calls, id) ==
    [calls EXCEPT ![id] = IF @ < MaxCalls THEN @ + 1 ELSE @]

\* a skip test that lets completed steps through
SettledFailedOnly(step) == step.status = "failed"

\* "if step['status'] in ['completed', 'failed']": the step is skipped
Settled(step) == step.status \in {"completed", "failed"}

\* a loop that counts only the steps it runs itself
TallyNothing(acc, step) == acc

\* a skipped step is counted by its stored status
Tally(acc, step) ==
    [acc EXCEPT
       !.completed_steps = IF step.status = "completed" THEN @ + 1 ELSE @,
       !.failed_steps = IF step.status = "failed" THEN @ + 1 ELSE @]

\* "if not step.get('continue_on_error', False): break"
HaltOnFailure(step) == ~step.continue_on_error

\* one iteration of the loop of execute_task over the loaded step list;
\* json.dumps(step_result) is evaluated before update_step_status is called,
\* so a result it cannot encode leaves the step row as it was and raises;
\* the failure branch calls update_step_status(..., error=...), a keyword
\* the method does not declare, so the call raises and writes nothing
LoopBody(acc, step, id, callback, outcome) ==
    IF Settled(step) THEN Tally(acc, step)
    ELSE LET r == ExecuteStep(step, callback, outcome)
             a == [acc EXCEPT !.ran = Append(@, id),
                              !.errors = IF r.success THEN @ ELSE @ \cup {id},
                              !.calls = IF r.dispatched THEN Bump(@, id) ELSE @]
         IN  IF r.status = "waiting"
             THEN [a EXCEPT
                     !.steps = UpdateStepStatus(@, id, "waiting", r.result, NoResult),
                     !.halted = TRUE]
             ELSE IF r.success /\ ~r.encodable
             THEN [a EXCEPT !.cause = "json.dumps", !.halted = TRUE]
             ELSE IF r.success
             THEN [a EXCEPT
                     !.steps = UpdateStepStatus(@, id, "completed", r.result, NoResult),
                     !.completed_steps = @ + 1]
             ELSE IF ~BindsKeyword("error")
             THEN [a EXCEPT !.cause = "update_step_status", !.halted = TRUE]
             ELSE [a EXCEPT
                     !.steps = UpdateStepStatus(@, id, "failed", NoResult, r.error),
                     !.failed_steps = @ + 1,
                     !.halted = HaltOnFailure(step)]

\* the for loop of execute_task: loaded is the step list as read before the
\* loop, order its ids by step_num; break leaves the rest untouched
RECURSIVE StepLoop(_, _, _, _, _, _)
StepLoop(acc, loaded, order, i, callback, out) ==
    IF i > Len(order) \/ acc.halted THEN acc
    ELSE StepLoop(LoopBody(acc, loaded[order[i]], order[i], callback, out[order[i]]),
                  loaded, order, i + 1, callback, out)

\* an aggregation that calls a task completed as soon as nothing failed
FinalStatusNoFailure(total_steps, completed_steps, failed_steps) ==
    IF failed_steps > 0 THEN "failed"
    ELSE IF completed_steps > 0 THEN "completed"
    ELSE "waiting"

\* the aggregation of execute_task
FinalStatus(total_steps, completed_steps, failed_steps) ==
    IF failed_steps > 0 /\ completed_steps = 0 THEN "failed"
    ELSE IF completed_steps = total_steps THEN "completed"
    ELSE IF failed_steps > 0 THEN "failed"
    ELSE "waiting"

\* an exception handler that returns the error and writes no status
OnExceptionSilent(ts, t) == ts

\* "except Exception as e" of execute_task: the task is written 'failed'
\* and {'success': False, 'error': str(e)} is returned
OnException(ts, t) == UpdateTaskStatusRow(ts, t, "failed")

\* a guard that turns away only tasks that do not exist
RefusedMissingOnly(ts, t) == t \notin 1..Len(ts)

\* "if not task" and "if task['status'] in ['completed', 'failed',
\* 'cancelled']": execute_task returns success=False before any write
Refused(ts, t) ==
    t \notin 1..Len(ts) \/ ts[t].status \in {"completed", "failed", "cancelled"}

\* TaskExecutor.execute_task as a function of the store: the new task
\* rows, step rows, dispatch counts and the returned report
RunTask(ts, ss, calls, t, callback, out) ==
    IF Refused(ts, t)
    THEN [tasks |-> ts, steps |-> ss, calls |-> calls,
          report |-> NoReport]
    ELSE LET order == GetTaskSteps(ss, t)
             started == UpdateTaskStatusRow(ts, t, "in_progress")
         IN  IF order = <<>>
             THEN [tasks |-> started, steps |-> ss, calls |-> calls,
                   report |-> [NoReport EXCEPT !.task = t, !.callback = callback,
                                               !.started = TRUE]]
             ELSE LET acc == StepLoop([steps |-> ss, calls |-> calls,
                                       completed_steps |-> 0, failed_steps |-> 0,
                                       ran |-> <<>>, errors |-> {},
                                       halted |-> FALSE, cause |-> "none"],
                                      ss, order, 1, callback, out)
                      final == FinalStatus(Len(order), acc.completed_steps,
                                           acc.failed_steps)
                  IN  IF acc.cause # "none"
                      THEN [tasks |-> OnException(started, t),
                            steps |-> acc.steps, calls |-> acc.calls,
                            report |-> [NoReport EXCEPT !.task = t,
                                          !.callback = callback,
                                          !.started = TRUE, !.ran = acc.ran,
                                          !.errors = acc.errors,
                                          !.cause = acc.cause]]
                      ELSE
                      [tasks |-> UpdateTaskStatusRow(started, t, final),
                       steps |-> acc.steps, calls |-> acc.calls,
                       report |-> [task |-> t, callback |-> callback, prompt |-> "",
                                   success |-> TRUE, started |-> TRUE,
                                   status |-> final, total_steps |-> Len(order),
                                   completed_steps |-> acc.completed_steps,
                                   failed_steps |-> acc.failed_steps,
                                   ran |-> acc.ran, errors |-> acc.errors,
                                   cause |-> "none"]]

\* the steps of task t a run would hand to the tool dispatcher
Dispatchable(ss, t) ==
    {i \in StepsOf(ss, t) : /\ ss[i].action_type = "tool_call"
                            /\ ss[i].action_params = "tool"
                            /\ ss[i].status \notin {"completed", "failed"}}

\* one outcome per dispatch; steps that are not dispatched get "ok"
Outcomes(ss, t) ==
    {[i \in 1..Len(ss) |-> IF i \in Dispatchable(ss, t) THEN o[i] ELSE "ok"] :
        o \in [Dispatchable(ss, t) -> ToolOutcomes]}

\* the outcomes to enumerate for a call that runs the loop of task t, or
\* for one that is turned away before it
OutcomesIf(runs, ss, t) ==
    IF runs THEN Outcomes(ss, t) ELSE {[i \in 1..Len(ss) |-> "ok"]}

HasOpenConfirm(ss, t) ==
    \E i \in StepsOf(ss, t) : /\ ss[i].action_type = "user_confirm"
                              /\ ss[i].status \notin {"completed", "failed"}

Commit(r) ==
    /\ tasks' = r.tasks
    /\ steps' = r.steps
    /\ toolCalls' = r.calls
    /\ report' = r.report

(* ------------------------------ actions -------------------------------- *)

Init ==
    /\ tasks = <<>>
    /\ steps = <<>>
    /\ toolCalls = <<>>
    /\ report = NoReport
    /\ call = NoCall
    /\ now = 0
    /\ procs = [p \in Procs |-> Idle]

\* POST /tasks (routers/tasks.py create_task): a task row and no steps
CreateTask(session) ==
    /\ Len(tasks) < MaxTasks
    /\ tasks' = Append(tasks, NewTask(session))
    /\ report' = NoReport
    /\ call' = [NoCall EXCEPT !.op = "create_task", !.task = Len(tasks) + 1]
    /\ UNCHANGED <<steps, toolCalls, now, procs>>

\* TaskExecutor.execute_task(task_id, ..., user_confirm_callback)
ExecuteTask(t, callback, out) ==
    /\ Commit(RunTask(tasks, steps, toolCalls, t, callback, out))
    /\ call' = [NoCall EXCEPT !.op = "execute_task", !.task = t]
    /\ UNCHANGED <<now, procs>>

\* a guard that hands on every task that is not terminal
ResumableNotTerminal(ts, t) ==
    t \in 1..Len(ts) /\ ts[t].status \notin {"completed", "failed", "cancelled"}

\* "if not task" and "if task['status'] != 'waiting'" of resume_task
Resumable(ts, t) == t \in 1..Len(ts) /\ ts[t].status = "waiting"

\* TaskExecutor.resume_task: only a task in 'waiting' is handed on
ResumeTask(t, out) ==
    /\ call' = [NoCall EXCEPT !.op = "resume_task", !.task = t]
    /\ UNCHANGED <<now, procs>>
    /\ IF Resumable(tasks, t)
       THEN LET r == RunTask(tasks, steps, toolCalls, t, "none", out)
            IN  Commit(r)
       ELSE /\ report' = NoReport
            /\ UNCHANGED <<tasks, steps, toolCalls>>

\* a guard that lets a task already cancelled be cancelled again
CancellableAgain(ts, t) ==
    t \in 1..Len(ts) /\ ts[t].status \notin {"completed", "failed"}

\* "if not task" and "if task['status'] in ['completed', 'failed',
\* 'cancelled']" of cancel_task
Cancellable(ts, t) ==
    t \in 1..Len(ts) /\ ts[t].status \notin {"completed", "failed", "cancelled"}

\* TaskExecutor.cancel_task
CancelTask(t) ==
    /\ call' = [NoCall EXCEPT !.op = "cancel_task", !.task = t]
    /\ IF Cancellable(tasks, t)
       THEN /\ tasks' = UpdateTaskStatusRow(tasks, t, "cancelled")
            /\ report' = [NoReport EXCEPT !.task = t, !.success = TRUE]
       ELSE /\ report' = NoReport
            /\ UNCHANGED tasks
    /\ UNCHANGED <<steps, toolCalls, now, procs>>

(* ------------------------------ chat handler --------------------------- *)

Max(S) == CHOOSE x \in S : \A y \in S : y <= x

\* a get_tasks_by_session with ORDER BY created_at ASC: the waiting task
\* created first
WaitingTaskOldest(ts, session) ==
    LET W == {t \in 1..Len(ts) : ts[t].session = session /\ ts[t].status = "waiting"}
    IN  IF W = {} THEN 0 ELSE CHOOSE t \in W : \A u \in W : t <= u

\* get_tasks_by_session(session_id, status='waiting')[0]: ORDER BY
\* created_at DESC puts the task created last first; 0 when there is none
WaitingTask(ts, session) ==
    LET W == {t \in 1..Len(ts) : ts[t].session = session /\ ts[t].status = "waiting"}
    IN  IF W = {} THEN 0 ELSE Max(W)

\* a gate that takes the first step of the task whatever its status
WaitingStepFirst(ss, t) ==
    LET order == GetTaskSteps(ss, t)
    IN  IF order = <<>> THEN 0 ELSE order[1]

\* next(s for s in steps if s['status'] == 'waiting'), 0 when there is none
WaitingStep(ss, t) ==
    LET order == GetTaskSteps(ss, t)
        W == {k \in 1..Len(order) : ss[order[k]].status = "waiting"}
    IN  IF W = {} THEN 0 ELSE order[CHOOSE k \in W : \A j \in W : k <= j]

\* the step the gate would ask the classifier about, 0 when the gate
\* returns None before classifying
GateStep(ts, ss, session) ==
    IF WaitingTask(ts, session) = 0 THEN 0
    ELSE WaitingStep(ss, WaitingTask(ts, session))

\* the 'confirmed' branch of _check_and_resume_task: the waiting step is
\* marked completed with {confirmed: true, user_input: prompt}, then
\* resume_task, which finds the task 'waiting' and calls execute_task
GateConfirmed(ts, ss, calls, t, w, prompt, out) ==
    LET marked == UpdateStepStatus(ss, w, "completed", <<"confirmed", prompt>>, NoResult)
        r == RunTask(ts, marked, calls, t, "none", out)
    IN  [r EXCEPT !.report.prompt = prompt]

\* a 'rejected' branch that marks the step and forgets the task
GateRejectedStepOnly(ts, ss, calls, t, w, prompt) ==
    [tasks |-> ts,
     steps |-> UpdateStepStatus(ss, w, "failed", NoResult, <<"user rejected", prompt>>),
     calls |-> calls,
     report |-> [NoReport EXCEPT !.prompt = prompt]]

\* the 'rejected' branch: the waiting step and the task are marked failed
GateRejected(ts, ss, calls, t, w, prompt) ==
    [tasks |-> UpdateTaskStatusRow(ts, t, "failed"),
     steps |-> UpdateStepStatus(ss, w, "failed", NoResult, <<"user rejected", prompt>>),
     calls |-> calls,
     report |-> [NoReport EXCEPT !.prompt = prompt]]

\* an _analyze_confirmation that takes an oracle error for a refusal
AnalyzeConfirmationErrorRejects(answer) ==
    IF answer = "raises" THEN "rejected"
    ELSE IF answer \in {"confirmed", "both"} THEN "confirmed"
    ELSE IF answer = "rejected" THEN "rejected"
    ELSE "unrelated"

\* XiaoLeAgent._analyze_confirmation: "if 'confirmed' in result" is tested
\* first, then "if 'rejected' in result"; anything else and any exception
\* is 'unrelated'
AnalyzeConfirmation(answer) ==
    IF answer = "raises" THEN "unrelated"
    ELSE IF answer \in {"confirmed", "both"} THEN "confirmed"
    ELSE IF answer = "rejected" THEN "rejected"
    ELSE "unrelated"

\* whether the gate hands the turn on to normal handling: it returns None
\* when it finds no waiting step or the message is 'unrelated'
GateReturnsNone(ts, ss, session, answer) ==
    GateStep(ts, ss, session) = 0 \/ AnalyzeConfirmation(answer) = "unrelated"

\* chat() after the gate: "if task_result: skip_tool_check = True" sets a
\* flag that nothing reads, and analyze_intent with the tool execution that
\* follows it is called on every turn
RunsIntentAnalysis(task_result, skip_tool_check) == TRUE

\* "if not task_result and (not tool_result or not
\* tool_result.get('success'))" in front of identify_complex_task
RunsTaskIdentification(task_result, tool_success) ==
    ~task_result /\ ~tool_success

\* the record of a chat turn; the oracle is asked only about a waiting step
ChatCall(session, answer, t, task_result, tool_success) ==
    LET w == GateStep(tasks, steps, session)
    IN  [op |-> "chat", session |-> session, task |-> t, gated |-> w,
         answer |-> IF w = 0 THEN "none" ELSE answer,
         intent |-> RunsIntentAnalysis(task_result, task_result),
         identify |-> RunsTaskIdentification(task_result, tool_success),
         decomposer |-> "none"]

\* XiaoLeAgent._check_and_resume_task with a message the classifier calls
\* 'confirmed' or 'rejected', and the rest of the turn
CheckAndResumeTask(session, prompt, answer, out) ==
    LET t == WaitingTask(tasks, session)
        w == GateStep(tasks, steps, session)
    IN  /\ ~GateReturnsNone(tasks, steps, session, answer)
        /\ call' = ChatCall(session, answer, t, TRUE, FALSE)
        /\ UNCHANGED <<now, procs>>
        /\ IF AnalyzeConfirmation(answer) = "confirmed"
           THEN Commit(GateConfirmed(tasks, steps, toolCalls, t, w, prompt, out))
           ELSE Commit(GateRejected(tasks, steps, toolCalls, t, w, prompt))

\* XiaoLeAgent.chat when the gate returned None and the turn creates no
\* task: an ordinary tool answered, or the message is not taken for a task
ChatNoTask(session, answer, tool_success) ==
    /\ GateReturnsNone(tasks, steps, session, answer)
    /\ call' = ChatCall(session, answer, 0, FALSE, tool_success)
    /\ report' = NoReport
    /\ UNCHANGED <<tasks, steps, toolCalls, now, procs>>

\* a decomposer answer of n steps: step_num is a numbering of 1..n in any
\* order, action_type and action_params come from DecomposerSteps
Numberings(n) ==
    {f \in [1..n -> 1..n] : \A i, j \in 1..n : f[i] = f[j] => i = j}

RECURSIVE CreateSteps(_, _, _, _, _)
CreateSteps(ss, t, nums, kinds, i) ==
    IF i > Len(nums) THEN ss
    ELSE CreateSteps(Append(ss, NewStep(t, nums[i], kinds[i][1], kinds[i][2])),
                     t, nums, kinds, i + 1)

RECURSIVE Zeros(_)
Zeros(n) == IF n = 0 THEN <<>> ELSE Append(Zeros(n - 1), 0)

\* XiaoLeAgent.chat when the gate returned None and the message is taken
\* for a complex task: create_task, one create_step per decomposed step in
\* the order of the answer, then execute_task without a callback
ChatNewTask(session, answer, nums, kinds, out) ==
    /\ GateReturnsNone(tasks, steps, session, answer)
    /\ call' = ChatCall(session, answer, Len(tasks) + 1, FALSE, FALSE)
    /\ UNCHANGED <<now, procs>>
    /\ Len(tasks) < MaxTasks
    /\ Len(steps) + Len(nums) <= MaxSteps
    /\ LET t == Len(tasks) + 1
           created == CreateSteps(steps, t, nums, kinds, 1)
           r == RunTask(Append(tasks, NewTask(session)), created,
                        toolCalls \o Zeros(Len(nums)), t, "none", out)
       IN  Commit(r)

\* PUT /tasks/{task_id}/status (routers/tasks.py update_task_status): the
\* status of the request is written as it comes
PutTaskStatus(t, status) ==
    /\ TaskExists(t)
    /\ tasks' = UpdateTaskStatusRow(tasks, t, status)
    /\ report' = NoReport
    /\ call' = [NoCall EXCEPT !.op = "put_status", !.task = t]
    /\ UNCHANGED <<steps, toolCalls, now, procs>>

(* ------------------------------ specifications ------------------------- *)

DoCreateTask == \E s \in Sessions : CreateTask(s)

\* the oracle answers to enumerate for a turn of session s: it is asked
\* only when the gate finds a waiting step
AnswersAsked(s) ==
    IF GateStep(tasks, steps, s) = 0 THEN {"neither"} ELSE OracleAnswers

DoChatNewTask ==
    \E s \in Sessions, n \in 0..(MaxSteps - Len(steps)) :
        \E nums \in Numberings(n), kinds \in [1..n -> DecomposerSteps] :
            \E out \in Outcomes(CreateSteps(steps, Len(tasks) + 1, nums, kinds, 1),
                                Len(tasks) + 1) :
                \E a \in AnswersAsked(s) : ChatNewTask(s, a, nums, kinds, out)

DoChatNoTask ==
    \E s \in Sessions, ok \in BOOLEAN :
        \E a \in AnswersAsked(s) : ChatNoTask(s, a, ok)

DoCheckAndResumeTask ==
    \E s \in Sessions, m \in Messages, a \in OracleAnswers :
        \E out \in Outcomes(steps, WaitingTask(tasks, s)) :
            CheckAndResumeTask(s, m, a, out)

DoExecuteTask ==
    \E t \in 1..MaxTasks :
        \E cb \in (IF ~Refused(tasks, t) /\ HasOpenConfirm(steps, t)
                   THEN Callbacks ELSE {"none"}) :
            \E out \in OutcomesIf(~Refused(tasks, t), steps, t) :
                ExecuteTask(t, cb, out)

DoResumeTask ==
    \E t \in 1..MaxTasks :
        \E out \in OutcomesIf(Resumable(tasks, t), steps, t) : ResumeTask(t, out)

DoCancelTask == \E t \in 1..MaxTasks : CancelTask(t)

DoPutTaskStatus == \E t \in 1..MaxTasks, st \in TaskStatus : PutTaskStatus(t, st)

\* the engine: store, executor, gate and task creation
Next ==
    \/ DoCreateTask
    \/ DoChatNewTask
    \/ DoChatNoTask
    \/ DoCheckAndResumeTask
    \/ DoExecuteTask
    \/ DoResumeTask
    \/ DoCancelTask

Spec == Init /\ [][Next]_vars

\* the engine together with the raw status endpoint
NextApi ==
    \/ DoCreateTask
    \/ DoChatNewTask
    \/ DoChatNoTask
    \/ DoCheckAndResumeTask
    \/ DoExecuteTask
    \/ DoResumeTask
    \/ DoCancelTask
    \/ DoPutTaskStatus

SpecApi == Init /\ [][NextApi]_vars

(* ------------------------------ store failures ------------------------ *)

\* update_step_status and update_task_status catch every exception of the
\* connection and the UPDATE and return False; execute_task does not look
\* at what they return and never reads a row again, so an invocation in
\* which some writes fail returns what it would have returned and leaves
\* the rows of the failed writes as they were: lost is the set of steps
\* whose update_step_status failed, lostFinal tells whether the final
\* update_task_status failed (the task then keeps 'in_progress')
RunTaskWithFailedWrites(ts, ss, calls, t, callback, out, lost, lostFinal) ==
    LET r == RunTask(ts, ss, calls, t, callback, out)
    IN  IF Refused(ts, t) THEN r
        ELSE [r EXCEPT
                !.steps = [i \in 1..Len(ss) |->
                              IF i \in lost THEN ss[i] ELSE r.steps[i]],
                !.tasks = IF lostFinal
                          THEN UpdateTaskStatusRow(ts, t, "in_progress")
                          ELSE r.tasks]

\* execute_task while the store fails on some of its writes
ExecuteTaskFailedWrites(t, callback, out, lost, lostFinal) ==
    /\ ~Refused(tasks, t)
    /\ lost # {} \/ lostFinal
    /\ Commit(RunTaskWithFailedWrites(tasks, steps, toolCalls, t, callback, out,
                                      lost, lostFinal))
    /\ call' = [NoCall EXCEPT !.op = "execute_task", !.task = t]
    /\ UNCHANGED <<now, procs>>

DoExecuteTaskFailedWrites ==
    \E t \in TaskIds :
        \E cb \in (IF HasOpenConfirm(steps, t) THEN Callbacks ELSE {"none"}) :
            \E out \in Outcomes(steps, t) :
                \E lost \in SUBSET StepsOf(steps, t), lostFinal \in BOOLEAN :
                    ExecuteTaskFailedWrites(t, cb, out, lost, lostFinal)

\* the engine on a store whose writes can fail
NextStore ==
    \/ DoCreateTask
    \/ DoChatNewTask
    \/ DoChatNoTask
    \/ DoCheckAndResumeTask
    \/ DoExecuteTask
    \/ DoResumeTask
    \/ DoCancelTask
    \/ DoExecuteTaskFailedWrites

SpecStore == Init /\ [][NextStore]_vars

(* ------------------------------ several sessions ----------------------- *)

\* highest task id of the chat turns of SpecSessions
MaxSessionTasks == 2

SessionPair == {"s1", "s2"}

\* the decomposer answers of SpecSessions: a confirmation, alone or with a
\* step behind it
SessionPlans ==
    {<<<<"user_confirm", "notes">>>>,
     <<<<"user_confirm", "notes">>, <<"info", "notes">>>>}

\* XiaoLeAgent.chat in one of several sessions when the gate returned None
\* and the message is taken for a task: create_task, create_step for every
\* step of the plan, execute_task
SessionChatNewTask(session, answer, kinds) ==
    /\ GateReturnsNone(tasks, steps, session, answer)
    /\ Len(tasks) < MaxSessionTasks
    /\ call' = ChatCall(session, answer, Len(tasks) + 1, FALSE, FALSE)
    /\ UNCHANGED <<now, procs>>
    /\ LET t == Len(tasks) + 1
           nums == [i \in 1..Len(kinds) |-> i]
           created == CreateSteps(steps, t, nums, kinds, 1)
       IN  Commit(RunTask(Append(tasks, NewTask(session)), created,
                          toolCalls \o Zeros(Len(kinds)), t, "none",
                          [i \in 1..Len(created) |-> "ok"]))

DoSessionChatNewTask ==
    \E s \in SessionPair, kinds \in SessionPlans :
        \E a \in (IF GateStep(tasks, steps, s) = 0
                   THEN {"neither"} ELSE {"neither", "raises"}) :
            SessionChatNewTask(s, a, kinds)

DoSessionGate ==
    \E s \in SessionPair, m \in Messages, a \in OracleAnswers :
        CheckAndResumeTask(s, m, a, [i \in 1..Len(steps) |-> "ok"])

DoSessionChatNoTask ==
    \E s \in SessionPair, ok \in BOOLEAN :
        \E a \in (IF GateStep(tasks, steps, s) = 0
                   THEN {"neither"} ELSE OracleAnswers) :
            ChatNoTask(s, a, ok)

\* chat turns of two sessions
NextSessions ==
    \/ DoSessionChatNewTask
    \/ DoSessionGate
    \/ DoSessionChatNoTask

SpecSessions == Init /\ [][NextSessions]_vars

(* ------------------------------ creation paths ------------------------- *)

\* the titles identify_complex_task and the POST body are drawn from
Titles == {"a", "b"}

\* the seconds that pass between two requests
Delays == {10, 60}

\* "(datetime.now() - created_at).total_seconds() < 60"
DedupWindow == 60

\* get_tasks_by_user(user_id, limit=5)
RecentLimit == 5

\* TaskManager.create_task with the columns the title check reads
NewTitledTask(session, title, at) ==
    [session |-> session, status |-> "pending", title |-> title,
     created_at |-> at]

\* get_tasks_by_user(user_id, limit=5): ORDER BY created_at DESC LIMIT 5;
\* created_at grows with the id, all tasks are of the one user
RecentTasks(ts) == {t \in 1..Len(ts) : t > Len(ts) - RecentLimit}

\* the loop over recent_tasks of chat(): same title, created less than 60
\* seconds ago
IsDuplicate(ts, title, at) ==
    \E t \in RecentTasks(ts) :
        ts[t].title = title /\ at - ts[t].created_at < DedupWindow

\* POST /tasks (routers/tasks.py create_task) with its title: the row is
\* inserted without a look at the tasks that exist
PostTask(session, title) ==
    /\ Len(tasks) < MaxCreations
    /\ tasks' = Append(tasks, NewTitledTask(session, title, now))
    /\ report' = NoReport
    /\ call' = [NoCall EXCEPT !.op = "create_task", !.task = Len(tasks) + 1]
    /\ UNCHANGED <<steps, toolCalls, now, procs>>

\* XiaoLeAgent.chat for a message taken for a task with this title: a
\* duplicate is skipped with an error result, otherwise create_task, one
\* create_step per decomposed step and execute_task
ChatTitledTask(session, title, nums, kinds, out) ==
    /\ GateReturnsNone(tasks, steps, session, "neither")
    /\ UNCHANGED <<now, procs>>
    /\ IF IsDuplicate(tasks, title, now)
       THEN /\ report' = NoReport
            /\ call' = ChatCall(session, "neither", 0, FALSE, FALSE)
            /\ UNCHANGED <<tasks, steps, toolCalls>>
       ELSE /\ Len(tasks) < MaxCreations
            /\ call' = ChatCall(session, "neither", Len(tasks) + 1, FALSE, FALSE)
            /\ LET t == Len(tasks) + 1
                   created == CreateSteps(steps, t, nums, kinds, 1)
               IN  Commit(RunTask(Append(tasks, NewTitledTask(session, title, now)),
                                  created, toolCalls \o Zeros(Len(nums)),
                                  t, "none", out))

\* decompose_task on an answer that is not a step list: no JSON object is
\* answered with success=False, result.get on a JSON value that is not an
\* object raises into its except and is answered with success=False, and
\* any JSON object is answered with success=True and steps =
\* result.get('steps', []) as it comes
DecomposeSucceeds(shape) == shape \in {"steps_not_list", "bad_element"}

\* the elements of decompose_result['steps'] for which step.get(...) and
\* create_step run before the loop of chat() reaches an element without .get
StepsBeforeBadElement(shape) == IF shape = "bad_element" THEN 1 ELSE 0

\* XiaoLeAgent.chat for a message taken for a task when the decomposer
\* oracle answers with something that is not a step list: with
\* success=False nothing is created; with success=True create_task runs,
\* then create_step for the elements in front of the first one that is not
\* an object, where step.get raises into "except Exception" of chat():
\* execute_task is not reached and task_result stays unset
ChatMalformedDecomposition(session, title, shape) ==
    /\ GateReturnsNone(tasks, steps, session, "neither")
    /\ ~IsDuplicate(tasks, title, now)
    /\ report' = NoReport
    /\ UNCHANGED <<now, procs>>
    /\ IF DecomposeSucceeds(shape)
       THEN LET t == Len(tasks) + 1
                n == StepsBeforeBadElement(shape)
            IN  /\ Len(tasks) < MaxCreations
                /\ tasks' = Append(tasks, NewTitledTask(session, title, now))
                /\ steps' = CreateSteps(steps, t, [i \in 1..n |-> i],
                                        [i \in 1..n |-> <<"info", "notes">>], 1)
                /\ toolCalls' = toolCalls \o Zeros(n)
                /\ call' = [ChatCall(session, "neither", t, FALSE, FALSE)
                               EXCEPT !.decomposer = shape]
       ELSE /\ call' = [ChatCall(session, "neither", 0, FALSE, FALSE)
                           EXCEPT !.decomposer = shape]
            /\ UNCHANGED <<tasks, steps, toolCalls>>

\* time passes between two requests
Tick(d) ==
    /\ now + d <= MaxTime
    /\ now' = now + d
    /\ UNCHANGED <<tasks, steps, toolCalls, report, call, procs>>

DoPostTask == \E s \in Sessions, title \in Titles : PostTask(s, title)

\* the decomposer answers with no step or with one info step
DoChatTitledTask ==
    \E s \in Sessions, title \in Titles, n \in 0..1 :
        ChatTitledTask(s, title, [i \in 1..n |-> i],
                       [i \in 1..n |-> <<"info", "notes">>],
                       [i \in 1..(Len(steps) + n) |-> "ok"])

DoChatMalformedDecomposition ==
    \E s \in Sessions, title \in Titles, shape \in MalformedShapes :
        ChatMalformedDecomposition(s, title, shape)

DoTick == \E d \in Delays : Tick(d)

NextDedup ==
    \/ DoPostTask
    \/ DoChatTitledTask
    \/ DoChatMalformedDecomposition
    \/ DoTick

SpecDedup == Init /\ [][NextDedup]_vars

(* ------------------------------ handlers in flight --------------------- *)

\* Each request handler p runs execute_task one store call or one step at
\* a time; the other handler may move between any two of these.  The local
\* variables of an invocation are kept in procs[p]: the step list as
\* get_task_steps returned it (loaded, order), the loop position i and the
\* counters of the loop.  report holds what the last invocation that ran
\* its loop returned.

Running(pc, t) ==
    [pc |-> pc, task |-> t, loaded |-> <<>>, order |-> <<>>, i |-> 1,
     completed_steps |-> 0, failed_steps |-> 0, ran |-> <<>>, errors |-> {},
     halted |-> FALSE, cause |-> "none"]

\* POST /tasks/{task_id}/execute arrives at handler p
ConcExecute(p, t) ==
    /\ procs[p].pc = "idle"
    /\ procs' = [procs EXCEPT ![p] = Running("get_task", t)]
    /\ UNCHANGED <<tasks, steps, toolCalls, report, call, now>>

\* chat() in handler p creates a task and its steps and calls execute_task
ConcChatNewTask(p, session, nums, kinds) ==
    /\ procs[p].pc = "idle"
    /\ GateReturnsNone(tasks, steps, session, "neither")
    /\ Len(tasks) < MaxTasks
    /\ Len(steps) + Len(nums) <= MaxSteps
    /\ tasks' = Append(tasks, NewTask(session))
    /\ steps' = CreateSteps(steps, Len(tasks) + 1, nums, kinds, 1)
    /\ toolCalls' = toolCalls \o Zeros(Len(nums))
    /\ procs' = [procs EXCEPT ![p] = Running("get_task", Len(tasks) + 1)]
    /\ UNCHANGED <<report, call, now>>

\* _check_and_resume_task in handler p: 'confirmed' marks the waiting step
\* completed and calls resume_task, 'rejected' writes step and task failed
ConcGate(p, session, prompt, answer) ==
    LET t == WaitingTask(tasks, session)
        w == GateStep(tasks, steps, session)
    IN  /\ procs[p].pc = "idle"
        /\ ~GateReturnsNone(tasks, steps, session, answer)
        /\ UNCHANGED <<call, now>>
        /\ IF AnalyzeConfirmation(answer) = "confirmed"
           THEN /\ steps' = UpdateStepStatus(steps, w, "completed",
                                             <<"confirmed", prompt>>, NoResult)
                /\ procs' = [procs EXCEPT ![p] = Running("resume_task", t)]
                /\ UNCHANGED <<tasks, toolCalls, report>>
           ELSE /\ Commit(GateRejected(tasks, steps, toolCalls, t, w, prompt))
                /\ UNCHANGED procs

\* resume_task in handler p: get_task and the test for 'waiting'
ConcResumeCheck(p) ==
    /\ procs[p].pc = "resume_task"
    /\ procs' = [procs EXCEPT ![p] = IF Resumable(tasks, procs[p].task)
                                     THEN [@ EXCEPT !.pc = "get_task"]
                                     ELSE Idle]
    /\ UNCHANGED <<tasks, steps, toolCalls, report, call, now>>

\* execute_task in handler p: get_task and the tests of lines 49-62
ConcGetTask(p) ==
    /\ procs[p].pc = "get_task"
    /\ procs' = [procs EXCEPT ![p] = IF Refused(tasks, procs[p].task)
                                     THEN Idle
                                     ELSE [@ EXCEPT !.pc = "in_progress"]]
    /\ UNCHANGED <<tasks, steps, toolCalls, report, call, now>>

\* update_task_status(status='in_progress')
ConcMarkInProgress(p) ==
    /\ procs[p].pc = "in_progress"
    /\ tasks' = UpdateTaskStatusRow(tasks, procs[p].task, "in_progress")
    /\ procs' = [procs EXCEPT ![p].pc = "get_task_steps"]
    /\ UNCHANGED <<steps, toolCalls, report, call, now>>

\* get_task_steps and the early return for an empty list
ConcLoadSteps(p) ==
    /\ procs[p].pc = "get_task_steps"
    /\ LET order == GetTaskSteps(steps, procs[p].task)
       IN  IF order = <<>>
           THEN /\ procs' = [procs EXCEPT ![p] = Idle]
                /\ report' = [NoReport EXCEPT !.task = procs[p].task,
                                              !.started = TRUE]
           ELSE /\ procs' = [procs EXCEPT ![p].pc = "loop",
                                          ![p].loaded = steps,
                                          ![p].order = order]
                /\ UNCHANGED report
    /\ UNCHANGED <<tasks, steps, toolCalls, call, now>>

\* one iteration of the loop in handler p: the step row is the one that
\* was loaded, the writes go to the store as it is now
ConcStep(p, outcome) ==
    LET l == procs[p]
        id == l.order[l.i]
        acc == LoopBody([steps |-> steps, calls |-> toolCalls,
                         completed_steps |-> l.completed_steps,
                         failed_steps |-> l.failed_steps, ran |-> l.ran,
                         errors |-> l.errors, halted |-> FALSE,
                         cause |-> "none"],
                        l.loaded[id], id, "none", outcome)
    IN  /\ l.pc = "loop"
        /\ l.i <= Len(l.order)
        /\ ~l.halted
        /\ steps' = acc.steps
        /\ toolCalls' = acc.calls
        /\ procs' = [procs EXCEPT ![p].i = @ + 1,
                                  ![p].completed_steps = acc.completed_steps,
                                  ![p].failed_steps = acc.failed_steps,
                                  ![p].ran = acc.ran,
                                  ![p].errors = acc.errors,
                                  ![p].halted = acc.halted,
                                  ![p].cause = acc.cause]
        /\ UNCHANGED <<tasks, report, call, now>>

\* the end of execute_task in handler p: the aggregate status, or the
\* status of the exception handler, is written and the report returned
ConcFinish(p) ==
    LET l == procs[p]
        final == FinalStatus(Len(l.order), l.completed_steps, l.failed_steps)
    IN  /\ l.pc = "loop"
        /\ l.i > Len(l.order) \/ l.halted
        /\ procs' = [procs EXCEPT ![p] = Idle]
        /\ IF l.cause # "none"
           THEN /\ tasks' = OnException(tasks, l.task)
                /\ report' = [NoReport EXCEPT !.task = l.task, !.started = TRUE,
                                              !.ran = l.ran, !.errors = l.errors,
                                              !.cause = l.cause]
           ELSE /\ tasks' = UpdateTaskStatusRow(tasks, l.task, final)
                /\ report' = [NoReport EXCEPT
                                 !.task = l.task, !.success = TRUE,
                                 !.started = TRUE, !.status = final,
                                 !.total_steps = Len(l.order),
                                 !.completed_steps = l.completed_steps,
                                 !.failed_steps = l.failed_steps,
                                 !.ran = l.ran, !.errors = l.errors]
        /\ UNCHANGED <<steps, toolCalls, call, now>>

\* cancel_task while handlers are in flight: its get_task, test and write
ConcCancelTask(t) ==
    /\ Cancellable(tasks, t)
    /\ tasks' = UpdateTaskStatusRow(tasks, t, "cancelled")
    /\ UNCHANGED <<steps, toolCalls, report, call, now, procs>>

\* what the dispatcher may do for the step handler p is about to run
StepOutcomes(p) ==
    IF /\ procs[p].pc = "loop"
       /\ procs[p].i <= Len(procs[p].order)
       /\ procs[p].order[procs[p].i] \in
              Dispatchable(procs[p].loaded, procs[p].task)
    THEN ToolOutcomes ELSE {"ok"}

DoConcExecute == \E p \in Procs, t \in 1..MaxTasks : ConcExecute(p, t)

DoConcChatNewTask ==
    \E p \in Procs, s \in Sessions, n \in 0..(MaxSteps - Len(steps)) :
        \E nums \in Numberings(n), kinds \in [1..n -> DecomposerSteps] :
            ConcChatNewTask(p, s, nums, kinds)

DoConcGate ==
    \E p \in Procs, s \in Sessions, m \in Messages, a \in OracleAnswers :
        ConcGate(p, s, m, a)

DoConcResumeCheck == \E p \in Procs : ConcResumeCheck(p)

DoConcGetTask == \E p \in Procs : ConcGetTask(p)

DoConcMarkInProgress == \E p \in Procs : ConcMarkInProgress(p)

DoConcLoadSteps == \E p \in Procs : ConcLoadSteps(p)

DoConcStep == \E p \in Procs : \E o \in StepOutcomes(p) : ConcStep(p, o)

DoConcFinish == \E p \in Procs : ConcFinish(p)

DoConcCancelTask == \E t \in 1..MaxTasks : ConcCancelTask(t)

NextConc ==
    \/ DoConcChatNewTask
    \/ DoConcExecute
    \/ DoConcGate
    \/ DoConcResumeCheck
    \/ DoConcGetTask
    \/ DoConcMarkInProgress
    \/ DoConcLoadSteps
    \/ DoConcStep
    \/ DoConcFinish
    \/ DoConcCancelTask

SpecConc == Init /\ [][NextConc]_vars

(* ------------------------------ claims --------------------------------- *)

TaskSteps(t) == StepsOf(steps, t)

\* the last handler ran the step loop of execute_task to its end
Returned == report.started /\ report.success

Ran == {report.ran[k] : k \in 1..Len(report.ran)}

C2_IdempotentReentry ==
    [][/\ \A k \in 1..Len(report'.ran) :
             report'.ran[k] \in StepIds =>
                 steps[report'.ran[k]].status \notin {"completed", "failed"}
       /\ \A i \in 1..Len(toolCalls') : toolCalls'[i] <= 1]_vars

C2_Witness ==
    /\ Returned
    /\ \E i \in TaskSteps(report.task) :
          /\ steps[i].action_type = "tool_call"
          /\ steps[i].status = "completed"
          /\ toolCalls[i] = 1
          /\ i \notin Ran
    /\ Ran # {}

AllCompleted(t) == \A i \in TaskSteps(t) : steps[i].status = "completed"

\* C3 as stated: a task is 'completed' if and only if every one of its
\* steps is 'completed', a task with zero steps included
C3_Original ==
    \A t \in TaskIds : tasks[t].status = "completed" <=> AllCompleted(t)

\* C3: a task is 'completed' if and only if it has at least one step and
\* every one of its steps is 'completed'
C3_StatusDerivation ==
    \A t \in TaskIds :
        tasks[t].status = "completed" <=> (TaskSteps(t) # {} /\ AllCompleted(t))

C3_Witness ==
    \E t \in TaskIds, i \in StepIds :
        /\ steps[i].task_id = t
        /\ tasks[t].status = "completed"
        /\ steps[i].result[1] = "confirmed"

\* C4: no task is 'completed' while one of its steps is 'pending',
\* 'in_progress' or 'waiting'
C4_NoCompletedWithOpenStep ==
    \A t \in TaskIds :
        tasks[t].status = "completed" =>
            \A i \in TaskSteps(t) :
                steps[i].status \notin {"pending", "in_progress", "waiting"}

\* C5: a step whose execution fails in execute_task, and that carries no
\* continue_on_error, is the last step the invocation runs, the task ends
\* 'failed' and every step with a larger step_num is not run and is still
\* 'pending'
C5_FailFast ==
    report.started =>
        \A i \in report.errors :
            ~steps[i].continue_on_error =>
                /\ report.ran[Len(report.ran)] = i
                /\ tasks[report.task].status = "failed"
                /\ \A j \in TaskSteps(report.task) :
                      steps[j].step_num > steps[i].step_num =>
                          (j \notin Ran /\ steps[j].status = "pending")

C5_Witness ==
    /\ report.started
    /\ tasks[report.task].status = "failed"
    /\ \E i \in report.errors, j \in TaskSteps(report.task) :
          /\ steps[j].step_num > steps[i].step_num
          /\ steps[j].status = "pending"

\* C6: an execute_task that has set the task 'in_progress' returns with the
\* task persisted as 'completed', 'failed' or 'waiting'
C6_NeverLeftInProgress ==
    report.started =>
        tasks[report.task].status \in {"completed", "failed", "waiting"}

\* C7: after execute_task has run, the task is 'failed' if and only if at
\* least one of its steps is 'failed'
C7_FailedIffStepFailed ==
    report.started =>
        (tasks[report.task].status = "failed"
            <=> \E i \in TaskSteps(report.task) : steps[i].status = "failed")

\* C8: the steps an invocation runs are run in ascending step_num order,
\* and a step is passed over only if it was already completed or failed
C8_StrictOrdering ==
    report.started =>
        /\ \A j, k \in 1..Len(report.ran) :
              j < k => steps[report.ran[j]].step_num < steps[report.ran[k]].step_num
        /\ \A i \in Ran, j \in TaskSteps(report.task) :
              steps[j].step_num < steps[i].step_num =>
                  (j \in Ran \/ steps[j].status \in {"completed", "failed"})

C8_Witness ==
    /\ report.started
    /\ Len(report.ran) >= 2
    /\ report.ran[1] > report.ran[2]

\* the gate has just answered 'confirmed' for step i: a waiting step turns
\* completed in a handler that had no confirm callback
GateConfirmedStep(i) ==
    /\ steps[i].status = "waiting"
    /\ steps'[i].status = "completed"
    /\ report'.callback = "none"

\* C9: on 'confirmed' the waiting step becomes completed with result
\* {confirmed: true, user_input: message}; the run that follows executes only
\* steps after it, starts with the next open step, and leaves the task
\* 'completed' when every step has ended completed
C9_ResumeOnConfirm ==
    [][\A i \in StepIds :
          GateConfirmedStep(i) =>
              LET t == steps[i].task_id
              IN  /\ report'.prompt \in Messages
                  /\ steps'[i].result = <<"confirmed", report'.prompt>>
                  /\ report'.task = t
                  /\ \A k \in 1..Len(report'.ran) :
                        steps[report'.ran[k]].step_num > steps[i].step_num
                  /\ \A j \in StepsOf(steps, t) :
                        (steps[j].step_num > steps[i].step_num
                            /\ steps[j].status = "pending") => Len(report'.ran) >= 1
                  /\ \A j \in StepsOf(steps, t) :
                        steps[j].step_num < steps[i].step_num => steps'[j] = steps[j]
                  /\ (\A j \in StepsOf(steps', t) : steps'[j].status = "completed")
                        => (tasks'[t].status = "completed" /\ report'.status = "completed")]_vars

C9_Witness ==
    /\ Returned
    /\ report.prompt \in Messages
    /\ Len(report.ran) >= 1
    /\ tasks[report.task].status = "completed"
    /\ \E i \in TaskSteps(report.task) :
          /\ steps[i].result = <<"confirmed", report.prompt>>
          /\ \A k \in Ran : steps[k].step_num > steps[i].step_num

\* the gate has just answered 'rejected' for step i: a waiting step turns
\* failed in a handler that had no confirm callback
GateRejectedStep(i) ==
    /\ steps[i].status = "waiting"
    /\ steps'[i].status = "failed"
    /\ report'.callback = "none"

\* C10: on 'rejected' the waiting step becomes failed with error_message
\* "user rejected: <message>", the task becomes failed, no step is run and
\* every other step keeps its row
C10_Rejection ==
    [][\A i \in StepIds :
          GateRejectedStep(i) =>
              /\ report'.prompt \in Messages
              /\ steps'[i].error_message = <<"user rejected", report'.prompt>>
              /\ tasks'[steps[i].task_id].status = "failed"
              /\ report'.ran = <<>>
              /\ toolCalls' = toolCalls
              /\ Len(steps') = Len(steps)
              /\ \A j \in StepIds : j # i => steps'[j] = steps[j]]_vars

C10_Witness ==
    \E i, j \in StepIds :
        /\ steps[i].status = "failed"
        /\ steps[i].error_message[1] = "user rejected"
        /\ steps[j].task_id = steps[i].task_id
        /\ steps[j].step_num > steps[i].step_num
        /\ steps[j].status = "pending"
        /\ tasks[steps[i].task_id].status = "failed"

Terminal == {"completed", "failed", "cancelled"}

C12_Deduplication ==
    \A t, u \in TaskIds :
        (t < u /\ tasks[t].title = tasks[u].title)
            => tasks[u].created_at - tasks[t].created_at >= DedupWindow

\* C13: execute_task on a task that does not exist or is completed, failed
\* or cancelled returns success=false, dispatches no tool and leaves every
\* task and step row as it was
C13_TerminalExecuteIsNull ==
    [][(/\ call'.op = "execute_task"
        /\ (call'.task \notin TaskIds \/ tasks[call'.task].status \in Terminal)) =>
            /\ ~report'.success
            /\ ~report'.started
            /\ report'.ran = <<>>
            /\ tasks' = tasks
            /\ steps' = steps
            /\ toolCalls' = toolCalls]_vars

C13_Witness ==
    /\ call.op = "execute_task"
    /\ call.task \in TaskIds
    /\ tasks[call.task].status \in Terminal
    /\ ~report.started
    /\ \E i \in TaskSteps(call.task) :
          /\ steps[i].action_type = "tool_call"
          /\ steps[i].status = "pending"

\* C14: resume_task hands a task on to execute_task exactly when the task
\* exists and its status is 'waiting'; for a missing task and for every
\* other status it returns success=false and changes no task or step
C14_ResumeOnlyWaiting ==
    [][call'.op = "resume_task" =>
          IF call'.task \in TaskIds /\ tasks[call'.task].status = "waiting"
          THEN report'.started /\ report'.task = call'.task
          ELSE /\ ~report'.success
               /\ ~report'.started
               /\ tasks' = tasks
               /\ steps' = steps
               /\ toolCalls' = toolCalls]_vars

C14_Witness ==
    /\ call.op = "resume_task"
    /\ call.task \in TaskIds
    /\ tasks[call.task].status = "pending"
    /\ ~report.started

\* C15: cancel_task returns success=false and changes nothing for a task
\* that is missing, completed, failed or cancelled; otherwise it returns
\* success and writes 'cancelled' on the task and nothing else: every step
\* row stays as it was
C15_CancelFrame ==
    [][call'.op = "cancel_task" =>
          /\ steps' = steps
          /\ toolCalls' = toolCalls
          /\ IF call'.task \in TaskIds /\ tasks[call'.task].status \notin Terminal
             THEN /\ report'.success
                  /\ tasks' = [tasks EXCEPT ![call'.task].status = "cancelled"]
             ELSE /\ ~report'.success
                  /\ tasks' = tasks]_vars

C15_Witness ==
    /\ call.op = "cancel_task"
    /\ report.success
    /\ tasks[call.task].status = "cancelled"
    /\ \E i, j \in TaskSteps(call.task) :
          /\ steps[i].status = "completed"
          /\ toolCalls[i] = 1
          /\ steps[j].status = "waiting"

\* C16: under every interleaving of two invocations of execute_task or
\* resume_task on a task, no tool_call step is handed to the dispatcher
\* more than once
C16_DispatchedOnce ==
    \A i \in 1..Len(toolCalls) : toolCalls[i] <= 1

\* C17: after execute_task has returned, every step whose execution failed
\* in the invocation is stored 'failed' with an error_message, and the
\* report counts it in failed_steps
C17_FailureRecordedOnStep ==
    report.started =>
        \A i \in report.errors :
            /\ steps[i].status = "failed"
            /\ steps[i].error_message # NoResult
            /\ report.failed_steps >= 1

\* C18: no tool_call step for which the dispatcher returned success=false
\* is stored 'completed'
C18_ToolFailureFailsStep ==
    \A i \in StepIds :
        (steps[i].action_type = "tool_call" /\ steps[i].status = "completed")
            => steps[i].result # <<"tool_call", "fail">>

\* C19: a turn in which the gate has answered 'confirmed' or 'rejected' for
\* a waiting step runs neither the intent analysis with its tool dispatch
\* nor the task identification
C19_GateSuppressesNormalHandling ==
    (/\ call.op = "chat"
     /\ call.gated # 0
     /\ AnalyzeConfirmation(call.answer) # "unrelated")
        => (~call.intent /\ ~call.identify)

\* C20: the exception handler of execute_task is never entered because of
\* a call of a TaskStore operation
C20_StoreCallNeverRaises ==
    report.cause # "update_step_status"

\* the moves of a step's status along pending, in_progress, then completed,
\* failed or waiting, and from waiting to completed or failed
StepMoves ==
    {<<"pending", x>> : x \in {"in_progress", "completed", "failed", "waiting"}}
        \cup {<<"in_progress", x>> : x \in {"completed", "failed", "waiting"}}
        \cup {<<"waiting", "completed">>, <<"waiting", "failed">>}

\* C21: whatever handler runs, the stored status of a step stays as it is or
\* moves forward along pending, in_progress, {completed, failed, waiting} and
\* waiting, {completed, failed}: it never returns to 'pending' and a
\* completed or failed step keeps its status
C21_StepStatusMonotonic ==
    [][\A i \in StepIds :
          \/ steps'[i].status = steps[i].status
          \/ <<steps[i].status, steps'[i].status>> \in StepMoves]_vars

C21_Witness ==
    /\ call.op = "execute_task"
    /\ report.started
    /\ \E i, j \in TaskSteps(report.task) :
          /\ steps[i].status = "completed"
          /\ steps[i].result[1] = "confirmed"
          /\ steps[j].status = "completed"
          /\ steps[j].result = <<"user_confirm", "yes">>
          /\ j \in Ran

\* C22: a turn whose decomposer answer is not a step list persists neither a
\* task nor a step
C22_MalformedDecompositionPersistsNothing ==
    [][(call'.op = "chat" /\ call'.decomposer \in MalformedShapes) =>
          (tasks' = tasks /\ steps' = steps)]_vars

\* C23: every 'wait' step and every 'info' step an invocation of
\* execute_task runs, whatever its stored action_params, is stored
\* 'completed' when the invocation returns
C23_WaitAndInfoSucceed ==
    report.started =>
        \A i \in Ran :
            steps[i].action_type \in {"wait", "info"} =>
                (i \notin report.errors /\ steps[i].status = "completed")

\* the invocation ended in its exception handler after running step k
RaisedAt(k) ==
    /\ report.cause # "none"
    /\ Len(report.ran) >= 1
    /\ report.ran[Len(report.ran)] = k

\* C24: in an invocation with a confirm callback that answers yes or no,
\* every user_confirm step that is run is stored 'completed' with the
\* answer in its result, never 'waiting', and every later step is run in the
\* same invocation unless it was settled before or a step in between raised
C24_CallbackNeverWaits ==
    (report.started /\ report.callback \in {"yes", "no"}) =>
        \A i \in Ran :
            steps[i].action_type = "user_confirm" =>
                /\ steps[i].status = "completed"
                /\ steps[i].result = <<"user_confirm", report.callback>>
                /\ i \notin report.errors
                /\ tasks[report.task].status # "waiting"
                /\ \A j \in TaskSteps(report.task) :
                      steps[j].step_num > steps[i].step_num =>
                          \/ j \in Ran
                          \/ steps[j].status \in {"completed", "failed"}
                          \/ \E k \in Ran :
                                /\ steps[k].step_num < steps[j].step_num
                                /\ RaisedAt(k)

C24_Witness ==
    /\ report.started
    /\ report.callback = "no"
    /\ \E i, j \in Ran :
          /\ steps[i].result = <<"user_confirm", "no">>
          /\ steps[i].status = "completed"
          /\ steps[j].step_num > steps[i].step_num
          /\ steps[j].action_type = "tool_call"
          /\ steps[j].status = "completed"
          /\ toolCalls[j] = 1

\* the oracle answers that name no single class: both words, neither word,
\* or no answer at all
Ambiguous == {"both", "neither", "raises"}

\* C25: a turn in which the oracle's answer about a waiting step is
\* ambiguous or is an error is classified 'unrelated' and changes no row of
\* an existing task or step
C25_AmbiguousIsUnrelated ==
    [][(/\ call'.op = "chat"
        /\ call'.gated # 0
        /\ call'.answer \in Ambiguous) =>
            /\ AnalyzeConfirmation(call'.answer) = "unrelated"
            /\ \A u \in TaskIds : tasks'[u] = tasks[u]
            /\ \A i \in StepIds : steps'[i] = steps[i]]_vars

\* C26: a task that is 'cancelled' stays 'cancelled' through every later
\* store write, the writes of an invocation of execute_task that was in
\* flight when the task was cancelled included
C26_CancellationIsFinal ==
    [][\A t \in TaskIds :
          tasks[t].status = "cancelled" => tasks'[t].status = "cancelled"]_vars

\* C27: no invocation runs a step of a task that has a step with a smaller
\* step_num stored 'failed' without continue_on_error
C27_NothingRunsAfterFailedStep ==
    [][\A k \in 1..Len(report'.ran) :
          LET j == report'.ran[k]
          IN  j \in StepIds =>
                  \A i \in StepsOf(steps, steps[j].task_id) :
                      (steps[i].status = "failed" /\ ~steps[i].continue_on_error)
                          => steps[i].step_num > steps[j].step_num]_vars

\* no request handler is inside an operation
Quiescent == \A p \in Procs : procs[p].pc = "idle"

WaitingSteps(t) == {i \in TaskSteps(t) : steps[i].status = "waiting"}

\* C28: when no handler is in flight, no task has more than one step
\* 'waiting', and a task that is 'waiting' has exactly one, the step with the
\* lowest step_num among those neither completed nor failed
C28_OneWaitingStep ==
    Quiescent =>
        \A t \in TaskIds :
            /\ Cardinality(WaitingSteps(t)) <= 1
            /\ tasks[t].status = "waiting" =>
                  \E i \in WaitingSteps(t) :
                      \A j \in TaskSteps(t) :
                          steps[j].step_num < steps[i].step_num =>
                              steps[j].status \in {"completed", "failed"}

StepsWithStatus(t, status) == {i \in TaskSteps(t) : steps[i].status = status}

\* C29: when execute_task has returned success=true with status S,
\* completed_steps c and failed_steps f, the task is stored with status S
\* and exactly c of its steps are stored 'completed' and f 'failed', also
\* when a store write of the invocation has failed
C29_ReportAgreesWithStore ==
    (report.started /\ report.success) =>
        /\ tasks[report.task].status = report.status
        /\ Cardinality(StepsWithStatus(report.task, "completed"))
              = report.completed_steps
        /\ Cardinality(StepsWithStatus(report.task, "failed"))
              = report.failed_steps

\* the waiting tasks of a session and the one of them created last
WaitingOf(session) ==
    {t \in TaskIds : tasks[t].session = session /\ tasks[t].status = "waiting"}

MostRecentWaiting(session) ==
    IF WaitingOf(session) = {} THEN 0 ELSE Max(WaitingOf(session))

\* C30: in a chat turn the oracle is asked only about a step of the waiting
\* task of the turn's session that was created last, and every other task,
\* of this session or of another one, keeps its row, the rows of its steps
\* and their dispatch counts
C30_OnlyMostRecentWaitingTask ==
    [][call'.op = "chat" =>
          /\ call'.gated # 0 =>
                steps[call'.gated].task_id = MostRecentWaiting(call'.session)
          /\ \A u \in TaskIds :
                u # MostRecentWaiting(call'.session) =>
                    /\ tasks'[u] = tasks[u]
                    /\ \A i \in TaskSteps(u) : /\ steps'[i] = steps[i]
                                                 /\ toolCalls'[i] = toolCalls[i]]_vars

C30_Witness ==
    /\ call.op = "chat"
    /\ call.gated # 0
    /\ call.answer = "confirmed"
    /\ \E t, u \in TaskIds :
          /\ t < u
          /\ tasks[t].session = call.session
          /\ tasks[u].session = call.session
          /\ tasks[t].status = "waiting"
          /\ steps[call.gated].task_id = u
          /\ tasks[u].status = "completed"

====
